---- MODULE Spec2Model ----
(***************************************************************************)
(* EduSync: the schedule quality scorer (ScheduleMLModel) and the          *)
(* ScheduleOptimizer built on it.                                          *)
(*                                                                         *)
(* Numbers.  Scores, normalised features and availability contributions    *)
(* are fixed-point integers in thousandths (1000 stands for 1.0); a        *)
(* numeric teacher availability is held in hundredths (100 stands for      *)
(* 1.0), so that availability * 0.1 is that many thousandths.              *)
(* Strings that the code inspects character by character (course names,    *)
(* expertise keywords) are sequences of one-character strings.             *)
(* JavaScript values that may be absent are tagged records.                *)
(***************************************************************************)
EXTENDS Integers, Sequences, FiniteSets, TLC

VARIABLES tf, model, isTrained, isTensorFlow, isModelLoaded, initPc, loadOutcome, res,
          split, connection, trainPc, trainerModel, trainerTrained, trainResult,
          stepsDone, reinitPc

vars == <<tf, model, isTrained, isTensorFlow, isModelLoaded, initPc, loadOutcome, res,
          split, connection, trainPc, trainerModel, trainerTrained, trainResult,
          stepsDone, reinitPc>>

(***************************************************************************)
(* JavaScript values                                                       *)
(***************************************************************************)
Undef == [js |-> "undefined"]
Null == [js |-> "null"]
Num(n) == [js |-> "number", num |-> n]
Arr(s) == [js |-> "array", arr |-> s]
Obj(m) == [js |-> "object", obj |-> m]
Str(s) == [js |-> "string", str |-> s]

\* truthiness of a tagged value (undefined, null, 0 and "" are falsy)
Truthy(v) ==
  CASE v.js = "undefined" -> FALSE
    [] v.js = "null" -> FALSE
    [] v.js = "number" -> v.num # 0
    [] v.js = "string" -> v.str # ""
    [] OTHER -> TRUE

Min(a, b) == IF a <= b THEN a ELSE b
Max(a, b) == IF a >= b THEN a ELSE b

(***************************************************************************)
(* Strings as character sequences                                          *)
(***************************************************************************)
toLowerCase(s) ==
  [i \in 1..Len(s) |->
     CASE s[i] = "A" -> "a" [] s[i] = "H" -> "h" [] s[i] = "M" -> "m"
       [] s[i] = "R" -> "r" [] s[i] = "T" -> "t" [] OTHER -> s[i]]

\* String.prototype.includes: sub occurs in s at some offset
includes(s, sub) ==
  \E i \in 0..(Len(s) - Len(sub)) : \A j \in 1..Len(sub) : s[i + j] = sub[j]

\* Array.prototype.includes on a sequence
arrIncludes(a, x) == \E i \in 1..Len(a) : a[i] = x

(***************************************************************************)
(* calculateHeuristicScore                                                 *)
(***************************************************************************)
roomTypeMatch(roomType) ==
  CASE roomType = "classroom" -> "theory"
    [] roomType = "lab" -> "lab"
    [] roomType = "lecture-hall" -> "theory"
    [] OTHER -> "undefined"

\* teacher.expertise.some(exp => course.name.toLowerCase().includes(exp.toLowerCase()))
expertiseMatch(course, teacher) ==
  \E k \in 1..Len(teacher.expertise.arr) :
    includes(toLowerCase(course.name), toLowerCase(teacher.expertise.arr[k]))

\* the expertise rule without the bonus of a match
ExpertiseTermNoBonus(it) ==
  IF Truthy(it.teacher.expertise) /\ Len(it.teacher.expertise.arr) > 0
  THEN (IF expertiseMatch(it.course, it.teacher) THEN 0 ELSE -100)
  ELSE 0

ExpertiseTerm(it) ==
  IF Truthy(it.teacher.expertise) /\ Len(it.teacher.expertise.arr) > 0
  THEN (IF expertiseMatch(it.course, it.teacher) THEN 200 ELSE -100)
  ELSE 0

ExperienceTerm(it) ==
  IF Truthy(it.teacher.teachableYears)
  THEN Min(Len(it.teacher.teachableYears.arr) * 50, 150)
  ELSE 0

\* the capacity rule with the penalty of a too small room halved
CapacityTermMild(it) ==
  IF it.room.capacity >= it.course.capacity THEN 100 ELSE -100

CapacityTerm(it) ==
  IF it.room.capacity >= it.course.capacity THEN 100 ELSE -200

RoomTypeTerm(it) ==
  IF roomTypeMatch(it.room.type) = it.course.lectureType THEN 100 ELSE 0

TimeSlotTerm(it) ==
  IF it.timeSlot # "" /\ it.timeSlot # "undefined"
  THEN (IF it.timeSlot = "09:00" \/ it.timeSlot = "10:00" THEN 100 ELSE 0)
       + (IF it.timeSlot = "16:00" THEN -50 ELSE 0)
  ELSE 0

DayTerm(it) ==
  IF it.day # "" /\ it.day # "undefined"
  THEN (IF it.day = "Monday" \/ it.day = "Friday" THEN -50 ELSE 0)
  ELSE 0

AvailabilityTerm(it) ==
  IF Truthy(it.teacher) /\ Truthy(it.teacher.availability)
  THEN (IF it.teacher.availability.js = "number"
        THEN it.teacher.availability.num ELSE 0)
  ELSE 0

\* the sum before the final clamp
RawHeuristic(it) ==
  500
  + (IF Truthy(it.teacher) /\ Truthy(it.course)
     THEN ExpertiseTerm(it) + ExperienceTerm(it) ELSE 0)
  + (IF Truthy(it.room) /\ Truthy(it.course)
     THEN CapacityTerm(it) + RoomTypeTerm(it) ELSE 0)
  + TimeSlotTerm(it)
  + DayTerm(it)
  + AvailabilityTerm(it)

\* the clamp without its lower bound
ClampUpperOnly(x) == Min(1000, x)

\* Math.max(0, Math.min(1, score))
Clamp01(x) == Max(0, Min(1000, x))

calculateHeuristicScore(it) == Clamp01(RawHeuristic(it))

(***************************************************************************)
(* Normalisers and extractFeatures (trained backend input)                 *)
(***************************************************************************)
normalizeDuration(duration) == Min((duration * 1000) \div 120, 1000)

normalizeCapacity(capacity) == Min((capacity * 1000) \div 100, 1000)

normalizeExperience(years) == Min((years * 1000) \div 10, 1000)

\* preferredSlots: tagged array of slot strings, or Undef
normalizeTimePreference(timeSlot, preferredSlots) ==
  IF ~Truthy(preferredSlots) \/ Len(preferredSlots.arr) = 0 THEN 500
  ELSE IF arrIncludes(preferredSlots.arr, timeSlot) THEN 1000 ELSE 0

\* matches[roomType] === lectureType; an unknown room type looks up undefined
normalizeRoomTypeMatch(roomType, lectureType) ==
  IF roomTypeMatch(roomType) = lectureType THEN 1000 ELSE 0

normalizeWorkload(workload) == Min((workload * 1000) \div 40, 1000)

normalizeStudentCount(count) == Min((count * 1000) \div 50, 1000)

normalizePriority(priority) == Min((priority * 1000) \div 10, 1000)

normalizeDistance(distance) == Min((distance * 1000) \div 1000, 1000)

\* number of true entries of a sequence of booleans
RECURSIVE CountTrue(_)
CountTrue(s) ==
  IF s = <<>> THEN 0 ELSE (IF Head(s) THEN 1 ELSE 0) + CountTrue(Tail(s))

\* Object.values(availability).filter(Boolean).length / 40; Object.values of a
\* number is the empty list
normalizeAvailability(availability) ==
  IF ~Truthy(availability) THEN 500
  ELSE IF availability.js = "object"
       THEN (CountTrue(availability.obj) * 1000) \div 40
       ELSE 0

normalizeDifficulty(difficulty) == Min((difficulty * 1000) \div 10, 1000)

\* timeMap[timeSlot] || 0.5
normalizeTimeOfDay(timeSlot) ==
  CASE timeSlot = "09:00" -> 100 [] timeSlot = "10:00" -> 200
    [] timeSlot = "11:00" -> 300 [] timeSlot = "12:00" -> 400
    [] timeSlot = "13:00" -> 500 [] timeSlot = "14:00" -> 600
    [] timeSlot = "15:00" -> 700 [] timeSlot = "16:00" -> 800
    [] OTHER -> 500

\* dayMap[day] || 0.5
normalizeDayOfWeek(day) ==
  CASE day = "Monday" -> 100 [] day = "Tuesday" -> 200
    [] day = "Wednesday" -> 300 [] day = "Thursday" -> 400
    [] day = "Friday" -> 500
    [] OTHER -> 500

normalizeSemesterProgress(progress) == Min((progress * 1000) \div 100, 1000)

normalizeHistoricalSuccess(success) == Min(success, 1000)

\* one row of extractFeatures; the items built by the optimizer and by
\* generateRecommendations carry no studentCount, roomDistance,
\* semesterProgress or historicalSuccess, so "|| 0" and "|| 0.5" apply
featureVector(it) ==
  << normalizeDuration(it.course.duration),
     normalizeCapacity(it.room.capacity),
     normalizeExperience(IF Truthy(it.teacher.teachableYears)
                         THEN Len(it.teacher.teachableYears.arr) ELSE 0),
     normalizeTimePreference(it.timeSlot, it.course.preferredTimeSlots),
     normalizeRoomTypeMatch(it.room.type, it.course.lectureType),
     normalizeWorkload(it.teacher.currentWorkload),
     normalizeStudentCount(0),
     normalizePriority(it.course.priority),
     normalizeDistance(0),
     normalizeAvailability(it.teacher.availability),
     normalizeDifficulty(it.course.difficulty),
     normalizeTimeOfDay(it.timeSlot),
     normalizeDayOfWeek(it.day),
     normalizeSemesterProgress(0),
     normalizeHistoricalSuccess(500) >>

\* the rows handed to tf.tensor2d(features)
extractFeatures(scheduleData) ==
  [i \in 1..Len(scheduleData) |-> featureVector(scheduleData[i])]

\* tf.tensor2d(features) is called without a shape: from an empty list no
\* rank-2 shape can be inferred and the call throws
tensor2dThrows(features) == Len(features) = 0

(***************************************************************************)
(* The trained backend: a feed-forward network with a sigmoid output unit. *)
(* Its weights are opaque; a weight set is a record [bias, gain] and the   *)
(* pre-activation of the output unit is an integer function of the         *)
(* weights and the feature row.                                            *)
(***************************************************************************)
RECURSIVE SumSeq(_)
SumSeq(s) == IF s = <<>> THEN 0 ELSE Head(s) + SumSeq(Tail(s))

Logit(w, row) == w.bias + (w.gain * (SumSeq(row) - 5000)) \div 1000

\* the sigmoid activation of the output layer, rounded to thousandths
Sigmoid(z) ==
  CASE z <= -8 -> 0    [] z = -7 -> 1    [] z = -6 -> 2    [] z = -5 -> 7
    [] z = -4 -> 18    [] z = -3 -> 47   [] z = -2 -> 119  [] z = -1 -> 269
    [] z = 0 -> 500    [] z = 1 -> 731   [] z = 2 -> 881   [] z = 3 -> 953
    [] z = 4 -> 982    [] z = 5 -> 993   [] z = 6 -> 998   [] z = 7 -> 999
    [] OTHER -> 1000

\* model.predict(features) followed by predictions.data(): one output per row
layersPredict(w, features) ==
  [i \in 1..Len(features) |-> Sigmoid(Logit(w, features[i]))]

\* the weights stored under models/saved, and the weight sets a freshly built
\* (never fitted) network may start from
SavedWeights == [bias |-> 1, gain |-> 2]
InitialWeights == {[bias |-> 0, gain |-> -3], [bias |-> -2, gain |-> 1]}

\* the heuristic fallback's model.predict closure
heuristicPredict(data) ==
  [i \in 1..Len(data) |-> calculateHeuristicScore(data[i])]

(***************************************************************************)
(* Records supplied by the callers                                         *)
(***************************************************************************)
Math == <<"M", "a", "t", "h">>
Art == <<"A", "r", "t">>

\* a Course document; priority and difficulty are not part of the document
\* (read as "|| 0"), preferredTimeSlots may be absent
Course(id, name, capacity, lectureType, year) ==
  [js |-> "object", _id |-> id, name |-> name, duration |-> 60,
   capacity |-> capacity, lectureType |-> lectureType, year |-> year,
   preferredTimeSlots |-> Undef, priority |-> 0, difficulty |-> 0]

Teacher(id, expertise, teachableYears, availability) ==
  [js |-> "object", _id |-> id, expertise |-> expertise,
   teachableYears |-> teachableYears, availability |-> availability,
   currentWorkload |-> 0]

Room(id, capacity, roomType) ==
  [js |-> "object", _id |-> id, capacity |-> capacity, type |-> roomType]

Item(course, teacher, room, timeSlot, day) ==
  [course |-> course, teacher |-> teacher, room |-> room,
   timeSlot |-> timeSlot, day |-> day]

\* a per-day availability grid (one flag per day), as the data model stores it
WeekGrid == Obj(<<TRUE, TRUE, FALSE, TRUE, TRUE>>)

\* the items scored one at a time
ScoreCourses == {Course("c", Math, 30, lt, 1) : lt \in {"theory", "lab"}}
ScoreExpertise ==
  {Undef, Arr(<<>>), Arr(<< <<"M", "A", "T", "H">> >>), Arr(<<Art>>)}
ScoreYears == {Undef, Arr(<<1, 2>>), Arr(<<1, 2, 3, 4>>)}
ScoreAvailability == {Undef, WeekGrid, Num(100), Num(-600), Num(700)}
ScoreTeachers ==
  {Teacher("t", e, y, a) :
     e \in ScoreExpertise, y \in ScoreYears, a \in ScoreAvailability}
ScoreRooms ==
  {Room("r", cap, rt) : cap \in {10, 30}, rt \in {"classroom", "lab", "gym"}}
ScoreSlots == {"undefined", "09:00", "10:00", "11:00", "16:00"}
ScoreDays == {"undefined", "Monday", "Tuesday", "Friday"}
ScoreItems ==
  {Item(c, t, r, ts, d) :
     c \in ScoreCourses, t \in ScoreTeachers, r \in ScoreRooms,
     ts \in ScoreSlots, d \in ScoreDays}

\* the documents the optimizer is called with
DbCourses ==
  << Course("c1", Math, 30, "theory", 1), Course("c2", Art, 10, "lab", 3) >>
DbTeachers ==
  << Teacher("t1", Arr(<< <<"M", "A", "T", "H">> >>), Arr(<<1, 2>>), Num(100)),
     Teacher("t2", Arr(<<Art>>), Arr(<<3, 4>>), WeekGrid),
     Teacher("t3", Arr(<< <<"a", "t">> >>), Arr(<<1, 2, 3>>), Undef),
     Teacher("t4", Arr(<< <<"x">> >>), Arr(<<1>>), Undef) >>
DbRooms ==
  << Room("r1", 30, "classroom"), Room("r2", 10, "lab"),
     Room("r3", 100, "lecture-hall") >>

(***************************************************************************)
(* Array helpers                                                           *)
(***************************************************************************)
\* Array.prototype.find by _id: the first match, or Undef
RECURSIVE findById(_, _)
findById(list, id) ==
  IF list = <<>> THEN Undef
  ELSE IF Head(list)._id = id THEN Head(list)
  ELSE findById(Tail(list), id)

\* position of x in a list already in non-increasing score order, after every
\* entry whose score is not smaller (Array.prototype.sort is stable)
RECURSIVE insertByScore(_, _)
insertByScore(sorted, x) ==
  IF sorted = <<>> THEN <<x>>
  ELSE IF Head(sorted).score >= x.score
       THEN <<Head(sorted)>> \o insertByScore(Tail(sorted), x)
       ELSE <<x>> \o sorted

\* list.sort((a, b) => b.score - a.score)
RECURSIVE sortByScoreDesc(_)
sortByScoreDesc(list) ==
  IF list = <<>> THEN <<>>
  ELSE insertByScore(sortByScoreDesc(SubSeq(list, 1, Len(list) - 1)),
                     list[Len(list)])

\* list.slice(0, n)
slice0(list, n) == SubSeq(list, 1, Min(n, Len(list)))

(***************************************************************************)
(* ScheduleMLModel.predict                                                 *)
(***************************************************************************)
NoModel == [kind |-> "null"]
HeuristicModel == [kind |-> "heuristic"]
LayersModel(w, fitted) == [kind |-> "layers", w |-> w, fitted |-> fitted]

Thrown == [ok |-> FALSE, scores |-> <<>>]
Returned(scores) == [ok |-> TRUE, scores |-> scores]

\* if (!this.model || !this.isTrained) throw
Ready == model.kind # "null" /\ isTrained

predict(scheduleData) ==
  IF ~Ready THEN Thrown
  ELSE IF isTensorFlow = "true"
       THEN (IF tf # "module" \/ model.kind # "layers"
                \/ tensor2dThrows(extractFeatures(scheduleData))
             THEN Thrown
             ELSE Returned(layersPredict(model.w, extractFeatures(scheduleData))))
       ELSE (IF model.kind = "heuristic"
             THEN Returned(heuristicPredict(scheduleData))
             ELSE Thrown)

(***************************************************************************)
(* ScheduleMLModel.generateRecommendations                                 *)
(***************************************************************************)
getAvailableTimeSlots ==
  <<"09:00", "10:00", "11:00", "12:00", "13:00", "14:00", "15:00", "16:00">>

Days == <<"Monday", "Tuesday", "Wednesday", "Thursday", "Friday">>

\* getOptimalDay draws days[Math.floor(Math.random() * 5)]; the k-th draw of a
\* run is taken from the stream named by seed: it starts at day seed \div 3
\* and advances by seed % 3 days per draw
getOptimalDay(seed, k) == Days[(((seed \div 3) + k * (seed % 3)) % 5) + 1]

isTeacherSuitable(course, teacher) ==
  /\ Truthy(teacher.teachableYears)
  /\ arrIncludes(teacher.teachableYears.arr, course.year)
  /\ Truthy(teacher.expertise)
  /\ expertiseMatch(course, teacher)

isRoomSuitable(course, room) ==
  /\ room.capacity >= course.capacity
  /\ room.type = (IF course.lectureType = "lab" THEN "lab" ELSE "classroom")

\* Math.round(score * 100)
calculateConfidence(score) == (score + 5) \div 10

\* the (teacher, room, timeSlot) combinations of one course in loop order
combinations(course, teachers, rooms) ==
  LET TOk(t) == isTeacherSuitable(course, t)
      ROk(r) == isRoomSuitable(course, r)
      T == SelectSeq(teachers, TOk)
      R == SelectSeq(rooms, ROk)
      S == getAvailableTimeSlots
  IN [k \in 1..(Len(T) * Len(R) * Len(S)) |->
        [teacher |-> T[(k - 1) \div (Len(R) * Len(S)) + 1],
         room |-> R[(((k - 1) \div Len(S)) % Len(R)) + 1],
         timeSlot |-> S[((k - 1) % Len(S)) + 1]]]

\* the schedule items built for one course; drawn counts the days drawn for
\* the courses before it
candidateItems(course, teachers, rooms, seed, drawn) ==
  LET C == combinations(course, teachers, rooms)
  IN [k \in 1..Len(C) |->
        Item(course, C[k].teacher, C[k].room, C[k].timeSlot,
             getOptimalDay(seed, drawn + k - 1))]

\* courseRecommendations before the sort; every item is scored by predict([item])
scoredCandidates(course, teachers, rooms, seed, drawn) ==
  LET I == candidateItems(course, teachers, rooms, seed, drawn)
  IN [k \in 1..Len(I) |->
        LET score == predict(<<I[k]>>).scores
        IN [course |-> I[k].course, teacher |-> I[k].teacher, room |-> I[k].room,
            timeSlot |-> I[k].timeSlot, day |-> I[k].day,
            score |-> score[1], confidence |-> calculateConfidence(score[1])]]

\* the first five in generation order, the sort left out
topUnsorted(list) == slice0(list, 5)

\* courseRecommendations.sort(...) then slice(0, 5)
topRecommendations(list) == slice0(sortByScoreDesc(list), 5)

RECURSIVE recommendFrom(_, _, _, _, _)
recommendFrom(courses, teachers, rooms, seed, drawn) ==
  IF courses = <<>> THEN <<>>
  ELSE LET course == Head(courses)
           n == Len(combinations(course, teachers, rooms))
       IN <<[course |-> course,
             recommendations |->
               topRecommendations(
                 scoredCandidates(course, teachers, rooms, seed, drawn))]>>
          \o recommendFrom(Tail(courses), teachers, rooms, seed, drawn + n)

\* TRUE iff some predict([scheduleItem]) call of the run throws
RECURSIVE somePredictThrows(_, _, _, _, _)
somePredictThrows(courses, teachers, rooms, seed, drawn) ==
  courses # <<>> /\
  LET I == candidateItems(Head(courses), teachers, rooms, seed, drawn)
  IN \/ \E k \in 1..Len(I) : ~predict(<<I[k]>>).ok
     \/ somePredictThrows(Tail(courses), teachers, rooms, seed, drawn + Len(I))

\* the first predict call that throws ends the run with that exception
generateRecommendations(courses, teachers, rooms, seed) ==
  IF somePredictThrows(courses, teachers, rooms, seed, 0)
  THEN [ok |-> FALSE, value |-> <<>>]
  ELSE [ok |-> TRUE, value |-> recommendFrom(courses, teachers, rooms, seed, 0)]

(***************************************************************************)
(* ScheduleOptimizer                                                       *)
(***************************************************************************)
\* a timetable entry refers to its course, teacher and room by identifier;
\* a reference is Str(id), Null or Undef
SchedItem(course, teacher, room, startTime, day) ==
  [course |-> course, teacher |-> teacher, room |-> room,
   startTime |-> startTime, day |-> day]

\* list.find(x => x._id.toString() === ref.toString()): ref.toString() is
\* evaluated for the first element, and throws on null and undefined
findThrows(list, ref) == list # <<>> /\ ref.js \in {"null", "undefined"}
findRef(list, ref) == IF list = <<>> THEN Undef ELSE findById(list, ref.str)

lookupThrows(item, courses, teachers, rooms) ==
  \/ findThrows(courses, item.course)
  \/ findThrows(teachers, item.teacher)
  \/ findThrows(rooms, item.room)

resolves(item, courses, teachers, rooms) ==
  /\ Truthy(findRef(courses, item.course))
  /\ Truthy(findRef(teachers, item.teacher))
  /\ Truthy(findRef(rooms, item.room))

resolved(item, courses, teachers, rooms) ==
  Item(findRef(courses, item.course), findRef(teachers, item.teacher),
       findRef(rooms, item.room), item.startTime, item.day)

\* the scheduleItems list: the entries whose three references resolve
RECURSIVE resolveAll(_, _, _, _)
resolveAll(schedule, courses, teachers, rooms) ==
  IF schedule = <<>> THEN <<>>
  ELSE (IF resolves(Head(schedule), courses, teachers, rooms)
        THEN <<resolved(Head(schedule), courses, teachers, rooms)>>
        ELSE <<>>)
       \o resolveAll(Tail(schedule), courses, teachers, rooms)

someLookupThrows(schedule, courses, teachers, rooms) ==
  \E i \in 1..Len(schedule) : lookupThrows(schedule[i], courses, teachers, rooms)

\* a quotient kept exact: num / den
Ratio(num, den) == [num |-> num, den |-> den]

\* the teacher identifiers of the pairs in order of first occurrence
RECURSIVE teacherKeys(_)
teacherKeys(pairs) ==
  IF pairs = <<>> THEN <<>>
  ELSE LET rest == teacherKeys(SubSeq(pairs, 1, Len(pairs) - 1))
           id == pairs[Len(pairs)].item.teacher._id
       IN IF arrIncludes(rest, id) THEN rest ELSE Append(rest, id)

RECURSIVE teacherTotal(_, _)
teacherTotal(pairs, id) ==
  IF pairs = <<>> THEN 0
  ELSE (IF Head(pairs).item.teacher._id = id THEN Head(pairs).score ELSE 0)
       + teacherTotal(Tail(pairs), id)

RECURSIVE teacherCount(_, _)
teacherCount(pairs, id) ==
  IF pairs = <<>> THEN 0
  ELSE (IF Head(pairs).item.teacher._id = id THEN 1 ELSE 0)
       + teacherCount(Tail(pairs), id)

\* Object.values(teacherScores).forEach: one insight per teacher averaging
\* below 0.5; roomScores is accumulated and never read
RECURSIVE teacherInsights(_, _)
teacherInsights(keys, pairs) ==
  IF keys = <<>> THEN <<>>
  ELSE (IF teacherTotal(pairs, Head(keys)) < 500 * teacherCount(pairs, Head(keys))
        THEN <<[type |-> "teacher_workload", about |-> Head(keys),
                score |-> Ratio(teacherTotal(pairs, Head(keys)),
                                teacherCount(pairs, Head(keys)))]>>
        ELSE <<>>)
       \o teacherInsights(Tail(keys), pairs)

generateInsights(scheduleItems, scores) ==
  LET scorePairs ==
        sortByScoreDesc([i \in 1..Len(scheduleItems) |->
                           [item |-> scheduleItems[i], score |-> scores[i]]])
      bestItem == scorePairs[1]
      worstItem == scorePairs[Len(scorePairs)]
  IN (IF bestItem.score > 800
      THEN <<[type |-> "excellent", about |-> bestItem.item.course._id,
              score |-> Ratio(bestItem.score, 1)]>>
      ELSE <<>>)
     \o (IF worstItem.score < 400
         THEN <<[type |-> "warning", about |-> worstItem.item.course._id,
                 score |-> Ratio(worstItem.score, 1)]>>
         ELSE <<>>)
     \o teacherInsights(teacherKeys(scorePairs), scorePairs)

\* scoreScheduleWithML without the test of an empty scheduleItems list: predict
\* is called on the empty list and the mean is 0 / 0
scoreScheduleUnguarded(schedule, courses, teachers, rooms) ==
  LET scheduleItems == resolveAll(schedule, courses, teachers, rooms)
      p == predict(scheduleItems)
  IN IF someLookupThrows(schedule, courses, teachers, rooms) \/ ~p.ok
     THEN [overallScore |-> Ratio(500, 1), insights |-> <<>>]
     ELSE [overallScore |-> Ratio(SumSeq(p.scores), Len(p.scores)),
           insights |-> <<>>]

scoreScheduleWithML(schedule, courses, teachers, rooms) ==
  LET scheduleItems == resolveAll(schedule, courses, teachers, rooms)
      p == predict(scheduleItems)
  IN IF someLookupThrows(schedule, courses, teachers, rooms)
     THEN [overallScore |-> Ratio(500, 1), insights |-> <<>>]
     ELSE IF Len(scheduleItems) = 0
     THEN [overallScore |-> Ratio(0, 1), insights |-> <<>>]
     ELSE IF ~p.ok
     THEN [overallScore |-> Ratio(500, 1), insights |-> <<>>]
     ELSE [overallScore |-> Ratio(SumSeq(p.scores), Len(p.scores)),
           insights |-> generateInsights(scheduleItems, p.scores)]

\* the parts joined, without the default text
getOptimizationReasonNoDefault(scheduleItem, score) ==
  (IF score < 300 THEN <<"Very poor schedule quality">>
   ELSE IF score < 500 THEN <<"Below average schedule quality">>
   ELSE <<>>)
  \o (IF scheduleItem.room.capacity < scheduleItem.course.capacity
      THEN <<"Room capacity mismatch">> ELSE <<>>)
  \o (IF Truthy(scheduleItem.teacher.teachableYears)
         /\ ~arrIncludes(scheduleItem.teacher.teachableYears.arr,
                         scheduleItem.course.year)
      THEN <<"Teacher not suitable for course level">> ELSE <<>>)

\* the parts joined by reasons.join(', '), or the default text
getOptimizationReason(scheduleItem, score) ==
  LET reasons ==
        (IF score < 300 THEN <<"Very poor schedule quality">>
         ELSE IF score < 500 THEN <<"Below average schedule quality">>
         ELSE <<>>)
        \o (IF scheduleItem.room.capacity < scheduleItem.course.capacity
            THEN <<"Room capacity mismatch">> ELSE <<>>)
        \o (IF Truthy(scheduleItem.teacher.teachableYears)
               /\ ~arrIncludes(scheduleItem.teacher.teachableYears.arr,
                               scheduleItem.course.year)
            THEN <<"Teacher not suitable for course level">> ELSE <<>>)
  IN IF reasons = <<>> THEN <<"General optimization needed">> ELSE reasons

\* the suggestions pushed for one timetable entry
suggestionsFor(item, courses, teachers, rooms) ==
  IF ~resolves(item, courses, teachers, rooms) THEN <<>>
  ELSE LET scheduleItem == resolved(item, courses, teachers, rooms)
           score == predict(<<scheduleItem>>).scores[1]
       IN IF score < 400
          THEN <<[type |-> "reschedule", item |-> item, currentScore |-> score,
                  reason |-> getOptimizationReason(scheduleItem, score),
                  priority |-> "high"]>>
          ELSE IF score < 600
          THEN <<[type |-> "improve", item |-> item, currentScore |-> score,
                  reason |-> getOptimizationReason(scheduleItem, score),
                  priority |-> "medium"]>>
          ELSE <<>>

RECURSIVE collectSuggestions(_, _, _, _)
collectSuggestions(schedule, courses, teachers, rooms) ==
  IF schedule = <<>> THEN <<>>
  ELSE suggestionsFor(Head(schedule), courses, teachers, rooms)
       \o collectSuggestions(Tail(schedule), courses, teachers, rooms)

\* a lookup or a predict call that throws is caught: the suggestions collected
\* so far are dropped
suggestionsThrow(schedule, courses, teachers, rooms) ==
  \E i \in 1..Len(schedule) :
    \/ lookupThrows(schedule[i], courses, teachers, rooms)
    \/ /\ resolves(schedule[i], courses, teachers, rooms)
       /\ ~predict(<<resolved(schedule[i], courses, teachers, rooms)>>).ok

getOptimizationSuggestions(schedule, courses, teachers, rooms) ==
  IF ~isModelLoaded
  THEN [suggestions |-> <<>>, status |-> "ML model not available"]
  ELSE IF suggestionsThrow(schedule, courses, teachers, rooms)
  THEN [suggestions |-> <<>>, status |-> "error"]
  ELSE [suggestions |-> collectSuggestions(schedule, courses, teachers, rooms),
        status |-> "ok"]

\* mlGuidance[courseId] = recommendations.map(...): a later entry for the same
\* course identifier overwrites an earlier one
guidanceOf(recs) ==
  [k \in 1..Len(recs) |->
     [teacher |-> recs[k].teacher._id, room |-> recs[k].room._id,
      timeSlot |-> recs[k].timeSlot, day |-> recs[k].day,
      score |-> recs[k].score, confidence |-> recs[k].confidence]]

lastIndexOf(recommendations, id) ==
  CHOOSE i \in 1..Len(recommendations) :
    /\ recommendations[i].course._id = id
    /\ \A j \in (i + 1)..Len(recommendations) : recommendations[j].course._id # id

\* getMLRecommendations reading the best entry of every list: a course
\* without recommendations makes it throw, and the catch block returns null
getMLRecommendationsBestFirst(courses, teachers, rooms, seed) ==
  LET r == generateRecommendations(courses, teachers, rooms, seed)
  IN IF ~r.ok \/ \E i \in 1..Len(r.value) : r.value[i].recommendations = <<>>
     THEN [isNull |-> TRUE, mlGuidance |-> <<>>]
     ELSE [isNull |-> FALSE,
           mlGuidance |->
             [id \in {r.value[i].course._id : i \in 1..Len(r.value)} |->
                guidanceOf(r.value[lastIndexOf(r.value, id)].recommendations)]]

getMLRecommendations(courses, teachers, rooms, seed) ==
  LET r == generateRecommendations(courses, teachers, rooms, seed)
  IN IF ~r.ok THEN [isNull |-> TRUE, mlGuidance |-> <<>>]
     ELSE [isNull |-> FALSE,
           mlGuidance |->
             [id \in {r.value[i].course._id : i \in 1..Len(r.value)} |->
                guidanceOf(r.value[lastIndexOf(r.value, id)].recommendations)]]

(***************************************************************************)
(* Inputs of the requests                                                  *)
(***************************************************************************)
MaxSched == 2
MaxBatch == 2
MaxList == 2
MaxSeed == 2

\* the sequences of length at most n over S
SeqsUpTo(S, n) == UNION {[1..k -> S] : k \in 0..n}

\* the result lists of a query on the collection db: at most n of its documents,
\* in the order of the collection
ListsOf(db, n) ==
  {[i \in 1..Len(p) |-> db[p[i]]] :
     p \in {q \in SeqsUpTo(1..Len(db), n) :
              \A i, j \in 1..Len(q) : i < j => q[i] < q[j]}}

\* entries whose references resolve; their heuristic scores are 1.0, 0.55,
\* 0.6, 0.4 and 0.2
GoodEntries ==
  {SchedItem(Str("c1"), Str("t1"), Str("r1"), "16:00", "Friday"),
   SchedItem(Str("c1"), Str("t4"), Str("r1"), "16:00", "Friday"),
   SchedItem(Str("c1"), Str("t1"), Str("r2"), "16:00", "Friday"),
   SchedItem(Str("c1"), Str("t2"), Str("r2"), "09:00", "Tuesday"),
   SchedItem(Str("c1"), Str("t2"), Str("r2"), "16:00", "Friday")}

\* entries with an absent or unknown reference
BadEntries ==
  {SchedItem(Null, Str("t2"), Str("r2"), "16:00", "Friday"),
   SchedItem(Str("c9"), Str("t2"), Str("r2"), "16:00", "Friday"),
   SchedItem(Str("c1"), Undef, Str("r2"), "16:00", "Friday"),
   SchedItem(Str("c1"), Str("t2"), Str("r9"), "16:00", "Friday")}

Schedules == SeqsUpTo(GoodEntries \cup BadEntries, MaxSched)

Batches ==
  SeqsUpTo({resolved(e, DbCourses, DbTeachers, DbRooms) : e \in GoodEntries},
           MaxBatch)

(***************************************************************************)
(* DataPreprocessor: encodings of the categorical training features        *)
(* (encoding[x] || 0), in thousandths                                      *)
(***************************************************************************)
encodeRoomType(type) ==
  CASE type = "classroom" -> 0 [] type = "lab" -> 1000
    [] type = "lecture-hall" -> 2000 [] OTHER -> 0

encodeTimeSlot(timeSlot) ==
  CASE timeSlot = "09:00" -> 0 [] timeSlot = "10:00" -> 1000
    [] timeSlot = "11:00" -> 2000 [] timeSlot = "12:00" -> 3000
    [] timeSlot = "13:00" -> 4000 [] timeSlot = "14:00" -> 5000
    [] timeSlot = "15:00" -> 6000 [] timeSlot = "16:00" -> 7000
    [] OTHER -> 0

encodeDayOfWeek(day) ==
  CASE day = "Monday" -> 0 [] day = "Tuesday" -> 1000
    [] day = "Wednesday" -> 2000 [] day = "Thursday" -> 3000
    [] day = "Friday" -> 4000 [] OTHER -> 0

encodeBranch(branch) ==
  CASE branch = "Computer Science" -> 0 [] branch = "Mathematics" -> 1000
    [] branch = "Physics" -> 2000 [] branch = "Chemistry" -> 3000
    [] branch = "Biology" -> 4000 [] branch = "Education" -> 5000
    [] OTHER -> 0

encodeProgram(program) ==
  CASE program = "FYUP" -> 0 [] program = "B.Ed." -> 1000
    [] program = "M.Ed." -> 2000 [] program = "ITEP" -> 3000
    [] OTHER -> 0

\* the values each categorical input is known for
KnownSlots == {getAvailableTimeSlots[i] : i \in 1..Len(getAvailableTimeSlots)}
KnownDays == {Days[i] : i \in 1..Len(Days)}
KnownRoomTypes == {"classroom", "lab", "lecture-hall"}
KnownBranches ==
  {"Computer Science", "Mathematics", "Physics", "Chemistry", "Biology", "Education"}
KnownPrograms == {"FYUP", "B.Ed.", "M.Ed.", "ITEP"}

\* the items whose features are extracted: raw values below 0, inside and
\* above the domain of the feature, availability grids of up to MaxGrid slots
MaxGrid == 41

FullGrid(n) == Obj([i \in 1..n |-> TRUE])

FeatureItems ==
  {Item([Course("c", Math, 30, "theory", 1) EXCEPT !.duration = d, !.priority = p],
        [Teacher("t", Arr(<<Math>>), Arr(<<1, 2>>), a) EXCEPT !.currentWorkload = w],
        Room("r", cap, "classroom"), "09:00", "Monday") :
     d \in {-60, 60, 240}, p \in {-1, 5}, a \in {Undef, WeekGrid, FullGrid(MaxGrid)},
     w \in {-10, 20, 80}, cap \in {-5, 30, 500}}

\* one call of a categorical normaliser or encoder: fn names it, a is its
\* string argument ("undefined" when absent), b its second argument
Call(fn, a, b) == [fn |-> fn, a |-> a, b |-> b]

NormalizerCalls ==
  {Call("normalizeTimePreference", a, b) :
     a \in {"09:00", "undefined"},
     b \in {Undef, Arr(<<>>), Arr(<<"09:00">>), Arr(<<"10:00">>)}}
  \cup {Call("normalizeRoomTypeMatch", a, Str(b)) :
          a \in KnownRoomTypes \cup {"gym", "undefined"}, b \in {"theory", "lab"}}
  \cup {Call("normalizeTimeOfDay", a, Undef) : a \in KnownSlots \cup {"17:00", "undefined"}}
  \cup {Call("normalizeDayOfWeek", a, Undef) : a \in KnownDays \cup {"Saturday", "undefined"}}
  \cup {Call("normalizeAvailability", "undefined", b) : b \in {Undef, Null, WeekGrid}}
  \cup {Call("encodeTimeSlot", a, Undef) : a \in KnownSlots \cup {"17:00", "undefined"}}
  \cup {Call("encodeDayOfWeek", a, Undef) : a \in KnownDays \cup {"Saturday", "undefined"}}
  \cup {Call("encodeRoomType", a, Undef) : a \in KnownRoomTypes \cup {"gym", "undefined"}}
  \cup {Call("encodeBranch", a, Undef) : a \in KnownBranches \cup {"History", "undefined"}}
  \cup {Call("encodeProgram", a, Undef) : a \in KnownPrograms \cup {"PhD", "undefined"}}

applyNormalizer(c) ==
  CASE c.fn = "normalizeTimePreference" -> normalizeTimePreference(c.a, c.b)
    [] c.fn = "normalizeRoomTypeMatch" -> normalizeRoomTypeMatch(c.a, c.b.str)
    [] c.fn = "normalizeTimeOfDay" -> normalizeTimeOfDay(c.a)
    [] c.fn = "normalizeDayOfWeek" -> normalizeDayOfWeek(c.a)
    [] c.fn = "normalizeAvailability" -> normalizeAvailability(c.b)
    [] c.fn = "encodeTimeSlot" -> encodeTimeSlot(c.a)
    [] c.fn = "encodeDayOfWeek" -> encodeDayOfWeek(c.a)
    [] c.fn = "encodeRoomType" -> encodeRoomType(c.a)
    [] c.fn = "encodeBranch" -> encodeBranch(c.a)
    [] c.fn = "encodeProgram" -> encodeProgram(c.a)

(***************************************************************************)
(* DataPreprocessor.splitData                                              *)
(***************************************************************************)
MaxSamples == 90
MaxShift == 3

\* the constructor: trainingData = [], validationData = [], testData = []
NoSplit == [trainingData |-> <<>>, validationData |-> <<>>, testData |-> <<>>]

\* the largest power of two that is at most k (k >= 1)
RECURSIVE Pow2AtMost(_)
Pow2AtMost(k) == IF k < 2 THEN 1 ELSE 2 * Pow2AtMost(k \div 2)

\* Math.floor(length * 0.7) in double arithmetic.  The double nearest to 0.7 is
\* 0.7 - 0.4 * 2^-53, so the exact product is 0.7 n - 0.4 n * 2^-53.  When 0.7 n
\* is not an integer the floor is that of 0.7 n.  When 0.7 n is an integer k,
\* the product is rounded to k iff its distance 0.4 n * 2^-53 from k is at most
\* half the spacing of the doubles below k, 2^(e-53) with 2^e <= k < 2^(e+1);
\* otherwise it is rounded to a double below k and the floor is k - 1.
trainSize(length) ==
  LET k == (7 * length) \div 10
  IN IF length > 0 /\ length % 10 = 0 /\ 4 * (length \div 10) > Pow2AtMost(k)
     THEN k - 1
     ELSE k

\* Math.floor(length * 0.15): the double nearest to 0.15 is 0.15 - 0.05 * 2^-53,
\* and a product whose exact value 0.15 n is an integer k is at distance
\* (n / 20) * 2^-53 <= 2^(e-53) from k: it is always rounded to k
valSize(length) == (15 * length) \div 100

\* Array.prototype.slice(start, end), indices from 0
slice(list, start, end) == SubSeq(list, start + 1, Min(end, Len(list)))

\* n samples, each its own record
Samples(n) == [i \in 1..n |-> i]

rotate(list, r) ==
  [i \in 1..Len(list) |-> list[((i - 1 + r) % Len(list)) + 1]]

reverse(list) == [i \in 1..Len(list) |-> list[Len(list) + 1 - i]]

\* [...data].sort(() => Math.random() - 0.5): some permutation of data.  The
\* permutations drawn are the rotations by at most MaxShift and their
\* reversals: every permutation of a list of up to three samples
Shuffles(data) ==
  {data}
  \cup {rotate(data, r) : r \in 0..Min(Len(data) - 1, MaxShift)}
  \cup {reverse(rotate(data, r)) : r \in 0..Min(Len(data) - 1, MaxShift)}

\* the lists of L in the order given and in the opposite order
Orders(L) == L \cup {reverse(l) : l \in L}

splitData(shuffled) ==
  LET n == Len(shuffled)
  IN [training |-> slice(shuffled, 0, trainSize(n)),
      validation |-> slice(shuffled, trainSize(n), trainSize(n) + valSize(n)),
      test |-> slice(shuffled, trainSize(n) + valSize(n), n)]

(***************************************************************************)
(* Training labels: DataPreprocessor.calculateQualityScore and the labels  *)
(* of ModelTrainer.generateSyntheticData, in thousandths                   *)
(***************************************************************************)
MaxTimetable == 3

\* a JavaScript number that is NaN, and a pending or settled promise
NaN == [js |-> "NaN"]
Promise(v) == [js |-> "promise", value |-> v]

\* the number an operand of an arithmetic operator is converted to: a promise
\* is an object without a numeric value
ToNumber(v) == IF v.js = "number" THEN v ELSE NaN

\* an entry of a stored timetable, course and room populated
HistItem(id, instructor, room, startTime) ==
  [_id |-> id,
   course |-> [name |-> Math, capacity |-> 30, instructor |-> instructor,
               preferredTimeSlots |-> Arr(<<"09:00">>)],
   room |-> room, day |-> "Monday", startTime |-> startTime]

\* the stored timetables: up to MaxTimetable entries, numbered in order
Timetables ==
  UNION {[1..n -> {"t1", "t2"} \X {Room("r1", 30, "classroom"), Room("r2", 10, "lab")}
                    \X {"09:00", "10:00"}] : n \in 1..MaxTimetable}

timetableOf(choice) ==
  [i \in 1..Len(choice) |-> HistItem(i, choice[i][1], choice[i][2], choice[i][3])]

\* the resolved value of calculateConflicts: the other entries with the same
\* instructor at the same time plus those in the same room at the same time
calculateConflicts(item, timetable) ==
  Cardinality({i \in 1..Len(timetable) :
                 /\ timetable[i].course.instructor = item.course.instructor
                 /\ timetable[i].day = item.day
                 /\ timetable[i].startTime = item.startTime
                 /\ timetable[i]._id # item._id})
  + Cardinality({i \in 1..Len(timetable) :
                   /\ timetable[i].room._id = item.room._id
                   /\ timetable[i].day = item.day
                   /\ timetable[i].startTime = item.startTime
                   /\ timetable[i]._id # item._id})

\* calculateConflicts is async and is called without await: conflicts is the
\* promise, and score -= conflicts * 0.1 converts it to a number
calculateQualityScore(item, teacher, timetable) ==
  LET score ==
        500
        + (IF Truthy(teacher.expertise) /\ Len(teacher.expertise.arr) > 0
           THEN (IF expertiseMatch(item.course, teacher) THEN 200 ELSE -100)
           ELSE 0)
        + (IF item.room.capacity >= item.course.capacity THEN 100 ELSE -200)
        + (IF Truthy(item.course.preferredTimeSlots)
              /\ arrIncludes(item.course.preferredTimeSlots.arr, item.startTime)
           THEN 100 ELSE 0)
      conflicts == ToNumber(Promise(Num(calculateConflicts(item, timetable))))
  IN IF conflicts = NaN THEN NaN
     ELSE Num(Max(0, Min(1000, score - conflicts.num * 100)))

\* the tables of generateSyntheticData: capacity of the courses, experience
\* and availability (in hundredths) of the teachers, capacity of the rooms
SyntheticCourses == {30, 25, 20, 35}
SyntheticTeachers == {<<5, 80>>, <<8, 90>>, <<3, 70>>, <<10, 85>>}
SyntheticRooms == {30, 25, 50}

\* (Math.random() - 0.5) * 0.2, in thousandths
Noise == {-100, 0, 99}

\* the quality_score of one synthetic sample
syntheticLabel(capacity, teacher, room, timeSlot, noise) ==
  Max(0, Min(1000,
    500 + teacher[1] * 20
    + (IF room >= capacity THEN 100 ELSE 0)
    + (IF timeSlot = "09:00" \/ timeSlot = "10:00" THEN 100 ELSE 0)
    + teacher[2]
    + noise))

(***************************************************************************)
(* prepareMLData and the rows ScheduleMLModel.train receives               *)
(***************************************************************************)
\* a component of a feature row: the named raw feature of a sample divided by
\* scale (1 when it is taken as it is); a sample is named by its number
Component(sample, feature, scale) ==
  [of |-> sample, feature |-> feature, scale |-> scale]

\* the row of a processed sample: an array of 15 numbers, not a schedule item
extractFeatureVector(item) ==
  [js |-> "array",
   arr |-> << Component(item, "course_duration", 120),
              Component(item, "course_capacity", 100),
              Component(item, "teacher_experience", 10),
              Component(item, "teacher_availability", 1),
              Component(item, "room_capacity", 100),
              Component(item, "room_utilization", 1),
              Component(item, "time_slot", 7),
              Component(item, "day_of_week", 4),
              Component(item, "time_of_day", 1),
              Component(item, "semester_progress", 1),
              Component(item, "historical_success_rate", 1),
              Component(item, "conflict_count", 10),
              Component(item, "course_difficulty", 10),
              Component(item, "course_priority", 10),
              Component(item, "teacher_workload", 40) >>]

prepareMLData(data) ==
  [features |-> [i \in 1..Len(data) |-> extractFeatureVector(data[i])],
   labels |-> [i \in 1..Len(data) |-> <<Component(data[i], "quality_score", 1)>>]]

\* the names of the positions of the rows the model is built for
featureNames ==
  << "course_duration", "room_capacity", "teacher_experience",
     "time_slot_preference", "room_type_match", "teacher_workload",
     "student_count", "course_priority", "room_distance",
     "teacher_availability", "course_difficulty", "time_of_day", "day_of_week",
     "semester_progress", "historical_success_rate" >>

\* the divisor extractFeatures applies at each position (1 for the
\* categorical ones and for historical success, 40 slots for availability)
featureScales == <<120, 100, 10, 1, 1, 40, 50, 10, 1000, 40, 10, 1, 1, 100, 1>>

\* extractFeatures reads item.course.duration of every element: for a row,
\* item.course is undefined and the read throws a TypeError
itemReadThrows(item) == item.js = "array"

\* train on the numeric backend: extractFeatures(trainingData.features), then
\* tensor2d on what it built
trainThrows(features) ==
  \/ \E i \in 1..Len(features) : itemReadThrows(features[i])
  \/ tensor2dThrows(features)

(***************************************************************************)
(* The routes of /api/ml                                                   *)
(***************************************************************************)
\* the course identifiers asked for: those of the collection and an unknown one
CourseIds == {DbCourses[i]._id : i \in 1..Len(DbCourses)} \cup {"c9"}

\* the schedules posted for scoring
PostedSchedules == SeqsUpTo(GoodEntries, MaxSched)

\* Model.find({ _id: { $in: refs } }): the documents referred to, in the order
\* of the collection
findIn(collection, refs) ==
  LET Wanted(d) == Str(d._id) \in refs IN SelectSeq(collection, Wanted)

\* the answer of GET /recommendations/:courseId; connected tells whether the
\* default connection is open when the handler queries it
recommendationsRoute(courseId, seed, connected) ==
  IF ~connected
  THEN [status |-> 500, body |-> <<"Failed to get recommendations">>]
  ELSE LET course == findById(DbCourses, courseId)
       IN IF ~Truthy(course)
          THEN [status |-> 404, body |-> <<"Course not found">>]
          ELSE IF ~isModelLoaded
          THEN [status |-> 200, body |-> <<>>]
          ELSE LET recommendations ==
                     getMLRecommendations(<<course>>, DbTeachers, DbRooms, seed)
               IN IF recommendations.isNull
                  THEN [status |-> 500, body |-> <<"Failed to get recommendations">>]
                  ELSE [status |-> 200, body |-> recommendations.mlGuidance[courseId]]

\* the answer of POST /score-schedule
scoreScheduleRoute(schedule, connected) ==
  IF ~connected
  THEN [status |-> 500, body |-> <<"Failed to score schedule">>]
  ELSE LET courses == findIn(DbCourses, {schedule[i].course : i \in 1..Len(schedule)})
           rooms == findIn(DbRooms, {schedule[i].room : i \in 1..Len(schedule)})
       IN [status |-> 200,
           body |-> scoreScheduleWithML(schedule, courses, DbTeachers, rooms)]

(***************************************************************************)
(* State machine                                                           *)
(***************************************************************************)
\* res holds the call last made on the scorer or the optimizer, with its
\* arguments and what it returned, until the caller has taken the result
NoCall == [op |-> "none"]

Init ==
  /\ tf = "null"
  /\ model = NoModel
  /\ isTrained = FALSE
  /\ isTensorFlow = "undefined"
  /\ isModelLoaded = FALSE
  /\ initPc = "new"
  /\ loadOutcome = "none"
  /\ res = NoCall
  /\ split = NoSplit
  /\ connection = "connecting"
  /\ trainPc = "idle"
  /\ trainerModel = "null"
  /\ trainerTrained = FALSE
  /\ trainResult = "none"
  /\ stepsDone = <<>>
  /\ reinitPc = "new"

scorer ==
  <<tf, model, isTrained, isTensorFlow, isModelLoaded, initPc, loadOutcome, reinitPc>>

\* a training run: the default mongoose connection it shares with the routes,
\* the step runTraining is at, its own ScheduleMLModel, what it returned and
\* the steps of the run that have succeeded
training == <<connection, trainPc, trainerModel, trainerTrained, trainResult, stepsDone>>

\* the state of the training side
trainer == <<split, training>>

\* mlOptimizer.initialize() at module start-up: runs into loadModel and
\* loadTensorFlow, which awaits the import of the numeric backend
Initialize ==
  /\ initPc = "new"
  /\ initPc' = "import"
  /\ UNCHANGED <<tf, model, isTrained, isTensorFlow, isModelLoaded, loadOutcome, res, reinitPc>>
  /\ UNCHANGED trainer

\* the import succeeds: loadModel goes on to loadLayersModel
ImportResolves ==
  /\ initPc = "import"
  /\ tf' = "module"
  /\ initPc' = "loadLayers"
  /\ UNCHANGED <<model, isTrained, isTensorFlow, isModelLoaded, loadOutcome, res, reinitPc>>
  /\ UNCHANGED trainer

\* the import fails: tf = false, loadModel calls createModel
ImportFails ==
  /\ initPc = "import"
  /\ tf' = "false"
  /\ initPc' = "createModel"
  /\ loadOutcome' = "backend unavailable"
  /\ UNCHANGED <<model, isTrained, isTensorFlow, isModelLoaded, res, reinitPc>>
  /\ UNCHANGED trainer

\* the saved weights load
LoadLayersResolves ==
  /\ initPc = "loadLayers"
  /\ model' = LayersModel(SavedWeights, TRUE)
  /\ isTrained' = TRUE
  /\ isTensorFlow' = "true"
  /\ initPc' = "loaded"
  /\ loadOutcome' = "weights loaded"
  /\ UNCHANGED <<tf, isModelLoaded, res, reinitPc>>
  /\ UNCHANGED trainer

\* loadLayersModel throws: the catch block calls createModel
LoadLayersRejects ==
  /\ initPc = "loadLayers"
  /\ \E why \in {"weights missing", "incompatible format"} : loadOutcome' = why
  /\ initPc' = "createModel"
  /\ UNCHANGED <<tf, model, isTrained, isTensorFlow, isModelLoaded, res, reinitPc>>
  /\ UNCHANGED trainer

\* createModel after its own await of loadTensorFlow
CreateModel ==
  /\ initPc = "createModel"
  /\ IF tf = "module"
     THEN /\ \E w \in InitialWeights : model' = LayersModel(w, FALSE)
          /\ isTensorFlow' = "true"
     ELSE /\ model' = HeuristicModel
          /\ isTensorFlow' = "false"
  /\ initPc' = "created"
  /\ UNCHANGED <<tf, isTrained, isModelLoaded, loadOutcome, res, reinitPc>>
  /\ UNCHANGED trainer

\* loadModel resumes after createModel: isTrained = true, return true
LoadModelReturns ==
  /\ initPc = "created"
  /\ isTrained' = TRUE
  /\ initPc' = "loaded"
  /\ UNCHANGED <<tf, model, isTensorFlow, isModelLoaded, loadOutcome, res, reinitPc>>
  /\ UNCHANGED trainer

\* initialize setting the flag only when the saved weights were loaded
InitializeReturnsOnLoadOnly ==
  /\ initPc = "loaded"
  /\ isModelLoaded' = (loadOutcome = "weights loaded")
  /\ initPc' = "done"
  /\ UNCHANGED <<tf, model, isTrained, isTensorFlow, loadOutcome, res, reinitPc>>
  /\ UNCHANGED trainer

\* initialize resumes with loaded = true
InitializeReturns ==
  /\ initPc = "loaded"
  /\ isModelLoaded' = TRUE
  /\ initPc' = "done"
  /\ UNCHANGED <<tf, model, isTrained, isTensorFlow, loadOutcome, res, reinitPc>>
  /\ UNCHANGED trainer

\* a second call of initialize(), made once the first has been started:
\* loadModel awaits loadTensorFlow, which imports again while tf is null
InitializeAgain ==
  /\ reinitPc = "new"
  /\ initPc # "new"
  /\ reinitPc' = (IF tf = "null" THEN "import"
                  ELSE IF tf = "module" THEN "loadLayers" ELSE "createModel")
  /\ UNCHANGED <<tf, model, isTrained, isTensorFlow, isModelLoaded, initPc,
                 loadOutcome, res>>
  /\ UNCHANGED trainer

\* the second import settles after the first and as the first did: tf is
\* assigned the same value again
ImportAgain ==
  /\ reinitPc = "import"
  /\ tf # "null"
  /\ reinitPc' = (IF tf = "module" THEN "loadLayers" ELSE "createModel")
  /\ UNCHANGED <<tf, model, isTrained, isTensorFlow, isModelLoaded, initPc,
                 loadOutcome, res>>
  /\ UNCHANGED trainer

\* loadLayersModel of the second call, on the file the first call has read:
\* it resolves if the first resolved and throws if the first threw
LoadLayersAgain ==
  /\ reinitPc = "loadLayers"
  /\ loadOutcome # "none"
  /\ IF loadOutcome = "weights loaded"
     THEN /\ model' = LayersModel(SavedWeights, TRUE)
          /\ isTrained' = TRUE
          /\ isTensorFlow' = "true"
          /\ reinitPc' = "loaded"
     ELSE /\ reinitPc' = "createModel"
          /\ UNCHANGED <<model, isTrained, isTensorFlow>>
  /\ UNCHANGED <<tf, isModelLoaded, initPc, loadOutcome, res>>
  /\ UNCHANGED trainer

\* createModel of the second call
CreateModelAgain ==
  /\ reinitPc = "createModel"
  /\ IF tf = "module"
     THEN /\ \E w \in InitialWeights : model' = LayersModel(w, FALSE)
          /\ isTensorFlow' = "true"
     ELSE /\ model' = HeuristicModel
          /\ isTensorFlow' = "false"
  /\ reinitPc' = "created"
  /\ UNCHANGED <<tf, isTrained, isModelLoaded, initPc, loadOutcome, res>>
  /\ UNCHANGED trainer

\* the second loadModel resumes after createModel
LoadModelReturnsAgain ==
  /\ reinitPc = "created"
  /\ isTrained' = TRUE
  /\ reinitPc' = "loaded"
  /\ UNCHANGED <<tf, model, isTensorFlow, isModelLoaded, initPc, loadOutcome, res>>
  /\ UNCHANGED trainer

\* a second call that gives up the model it had before it loads again
InitializeAgainClearing ==
  /\ reinitPc = "loaded"
  /\ isModelLoaded' = TRUE
  /\ model' = NoModel
  /\ reinitPc' = "done"
  /\ UNCHANGED <<tf, isTrained, isTensorFlow, initPc, loadOutcome, res>>
  /\ UNCHANGED trainer

\* the second initialize resumes with loaded = true
InitializeReturnsAgain ==
  /\ reinitPc = "loaded"
  /\ isModelLoaded' = TRUE
  /\ reinitPc' = "done"
  /\ UNCHANGED <<tf, model, isTrained, isTensorFlow, initPc, loadOutcome, res>>
  /\ UNCHANGED trainer

CalculateHeuristicScore ==
  /\ res = NoCall
  /\ \E it \in ScoreItems :
       res' = [op |-> "calculateHeuristicScore", item |-> it,
               score |-> calculateHeuristicScore(it)]
  /\ UNCHANGED scorer
  /\ UNCHANGED trainer

\* one call of a categorical normaliser or encoder
\* extractFeatures on one item: the row of the tensor
ExtractFeatures ==
  /\ res = NoCall
  /\ \E it \in FeatureItems :
       res' = [op |-> "extractFeatures", item |-> it,
               features |-> extractFeatures(<<it>>)[1]]
  /\ UNCHANGED scorer
  /\ UNCHANGED trainer

NormalizeCategorical ==
  /\ res = NoCall
  /\ \E c \in NormalizerCalls :
       res' = [op |-> "normalize", call |-> c, value |-> applyNormalizer(c)]
  /\ UNCHANGED scorer
  /\ UNCHANGED trainer

\* predict leaving the numeric backend for the heuristic one after a call
PredictSwitchingBackend ==
  /\ res = NoCall
  /\ \E batch \in Batches :
       res' = [op |-> "predict", items |-> batch, result |-> predict(batch)]
  /\ isTensorFlow' = "false"
  /\ UNCHANGED <<tf, model, isTrained, isModelLoaded, initPc, loadOutcome, reinitPc>>
  /\ UNCHANGED trainer

Predict ==
  /\ res = NoCall
  /\ \E batch \in Batches :
       res' = [op |-> "predict", items |-> batch, result |-> predict(batch)]
  /\ UNCHANGED scorer
  /\ UNCHANGED trainer

ScoreScheduleWithML ==
  /\ res = NoCall
  /\ \E schedule \in Schedules :
       res' = [op |-> "scoreScheduleWithML", schedule |-> schedule,
               result |-> scoreScheduleWithML(schedule, DbCourses, DbTeachers, DbRooms)]
  /\ UNCHANGED scorer
  /\ UNCHANGED trainer

GetOptimizationSuggestions ==
  /\ res = NoCall
  /\ \E schedule \in Schedules :
       res' = [op |-> "getOptimizationSuggestions", schedule |-> schedule,
               result |-> getOptimizationSuggestions(schedule, DbCourses,
                                                     DbTeachers, DbRooms)]
  /\ UNCHANGED scorer
  /\ UNCHANGED trainer

GetMLRecommendations ==
  /\ res = NoCall
  /\ \E courses \in ListsOf(DbCourses, MaxList),
        teachers \in Orders(ListsOf(DbTeachers, MaxList)),
        rooms \in ListsOf(DbRooms, MaxList),
        seed \in 0..MaxSeed :
       res' = [op |-> "getMLRecommendations", courses |-> courses,
               teachers |-> teachers, rooms |-> rooms, seed |-> seed,
               result |-> getMLRecommendations(courses, teachers, rooms, seed)]
  /\ UNCHANGED scorer
  /\ UNCHANGED trainer

\* processScheduleItem computing quality_score for an entry of a stored
\* timetable; teacher is the instructor of its course
CalculateQualityScore ==
  /\ res = NoCall
  /\ \E choice \in Timetables :
       \E k \in 1..Len(choice) :
         LET timetable == timetableOf(choice)
             teacher == findById(DbTeachers, timetable[k].course.instructor)
         IN res' = [op |-> "calculateQualityScore", item |-> timetable[k],
                    timetable |-> timetable,
                    conflicts |-> calculateConflicts(timetable[k], timetable),
                    label |-> calculateQualityScore(timetable[k], teacher, timetable)]
  /\ UNCHANGED scorer
  /\ UNCHANGED trainer

\* one sample of generateSyntheticData
GenerateSyntheticSample ==
  /\ res = NoCall
  /\ \E capacity \in SyntheticCourses, teacher \in SyntheticTeachers,
        room \in SyntheticRooms, timeSlot \in {"09:00", "13:00"}, noise \in Noise :
       res' = [op |-> "generateSyntheticData", capacity |-> capacity,
               teacher |-> teacher, room |-> room, timeSlot |-> timeSlot,
               label |-> Num(syntheticLabel(capacity, teacher, room, timeSlot, noise))]
  /\ UNCHANGED scorer
  /\ UNCHANGED trainer

\* one call of prepareMLData on a list of processed samples
PrepareMLData ==
  /\ res = NoCall
  /\ \E n \in 0..MaxTimetable :
       \E data \in Shuffles(Samples(n)) :
         res' = [op |-> "prepareMLData", data |-> data,
                 result |-> prepareMLData(data)]
  /\ UNCHANGED scorer
  /\ UNCHANGED trainer

\* one call of splitData: the three sets are stored and returned
SplitData ==
  /\ res = NoCall
  /\ \E n \in 0..MaxSamples :
       \E shuffled \in Shuffles(Samples(n)) :
         LET parts == splitData(shuffled)
         IN /\ res' = [op |-> "splitData", data |-> Samples(n), result |-> parts]
            /\ split' = [trainingData |-> parts.training,
                         validationData |-> parts.validation,
                         testData |-> parts.test]
  /\ UNCHANGED scorer
  /\ UNCHANGED training

\* mongoose.connect of server.js resolves
ServerConnected ==
  /\ connection = "connecting"
  /\ connection' = "connected"
  /\ UNCHANGED <<scorer, res, split, trainPc, trainerModel, trainerTrained, trainResult,
                 stepsDone>>

\* GET /recommendations/:courseId; a query on a closed connection rejects and
\* the handler answers 500
RecommendationsRoute ==
  /\ res = NoCall
  /\ connection # "connecting"
  /\ \E courseId \in CourseIds, seed \in 0..MaxSeed :
       res' = [op |-> "GET /recommendations", courseId |-> courseId,
               seed |-> seed,
               response |-> recommendationsRoute(courseId, seed, connection = "connected")]
  /\ UNCHANGED scorer
  /\ UNCHANGED trainer

\* POST /score-schedule
ScoreScheduleRoute ==
  /\ res = NoCall
  /\ connection # "connecting"
  /\ \E schedule \in PostedSchedules :
       res' = [op |-> "POST /score-schedule", schedule |-> schedule,
               response |-> scoreScheduleRoute(schedule, connection = "connected")]
  /\ UNCHANGED scorer
  /\ UNCHANGED trainer

\* POST /train: a new ModelTrainer, runTraining started and not awaited; the
\* router exists once mlOptimizer.initialize() has been called
PostTrain ==
  /\ trainPc = "idle"
  /\ initPc # "new"
  /\ trainPc' = "connect"
  /\ trainerModel' = "null"
  /\ trainerTrained' = FALSE
  /\ trainResult' = "none"
  /\ split' = NoSplit
  /\ stepsDone' = <<>>
  /\ UNCHANGED <<scorer, res, connection>>

\* connectToDatabase: mongoose.connect on the default connection; a no-op when
\* it is open, a new connection attempt when it is closed
TrainConnect ==
  /\ trainPc = "connect"
  /\ connection # "connecting"
  /\ \/ /\ connection' = "connected"
        /\ trainPc' = "collect"
        /\ stepsDone' = Append(stepsDone, "connect")
     \/ /\ connection = "disconnected"
        /\ connection' = connection
        /\ trainPc' = "finally"
        /\ stepsDone' = stepsDone
  /\ UNCHANGED <<scorer, res, split, trainerModel, trainerTrained, trainResult>>

\* collectAndPreprocessData: the samples are split, or a query throws
TrainCollect ==
  /\ trainPc = "collect"
  /\ \/ /\ \E shuffled \in Shuffles(Samples(MaxSamples)) :
             LET parts == splitData(shuffled)
             IN split' = [trainingData |-> parts.training,
                          validationData |-> parts.validation,
                          testData |-> parts.test]
        /\ trainPc' = "train"
        /\ stepsDone' = Append(stepsDone, "collect")
     \/ /\ split' = split
        /\ trainPc' = "finally"
        /\ stepsDone' = stepsDone
  /\ UNCHANGED <<scorer, res, connection, trainerModel, trainerTrained, trainResult>>

\* trainModel with the exception of train swallowed: the run goes on to
\* evaluate
TrainFitSwallowing ==
  /\ trainPc = "train"
  /\ tf # "null"
  /\ trainerModel' = (IF tf = "module" THEN "layers" ELSE "heuristic")
  /\ IF tf = "module" /\ trainThrows(prepareMLData(split.trainingData).features)
     THEN /\ trainerTrained' = trainerTrained
          /\ stepsDone' = stepsDone
     ELSE /\ trainerTrained' = TRUE
          /\ stepsDone' = Append(stepsDone, "train")
  /\ trainPc' = "evaluate"
  /\ UNCHANGED <<scorer, res, split, connection, trainResult>>

\* trainModel: createModel and train on the trainer's own ScheduleMLModel;
\* loadTensorFlow returns the module-level tf the optimizer's load has set.
\* On the numeric backend train hands the rows of prepareMLData to
\* extractFeatures and throws; on the heuristic one it waits and returns
TrainFit ==
  /\ trainPc = "train"
  /\ tf # "null"
  /\ trainerModel' = (IF tf = "module" THEN "layers" ELSE "heuristic")
  /\ IF tf = "module" /\ trainThrows(prepareMLData(split.trainingData).features)
     THEN /\ trainerTrained' = trainerTrained
          /\ trainPc' = "finally"
          /\ stepsDone' = stepsDone
     ELSE /\ trainerTrained' = TRUE
          /\ trainPc' = "evaluate"
          /\ stepsDone' = Append(stepsDone, "train")
  /\ UNCHANGED <<scorer, res, split, connection, trainResult>>

\* evaluateModel: predict on the test rows (the heuristic model scores a row
\* without course, teacher or room 0.5) and the metrics
TrainEvaluate ==
  /\ trainPc = "evaluate"
  /\ trainPc' = "save"
  /\ stepsDone' = Append(stepsDone, "evaluate")
  /\ UNCHANGED <<scorer, res, split, connection, trainerModel, trainerTrained, trainResult>>

\* saveModel: nothing to write for the heuristic model; runTraining goes on
\* to return { success: true, ... }
TrainSave ==
  /\ trainPc = "save"
  /\ trainResult' = "success"
  /\ trainPc' = "finally"
  /\ stepsDone' = Append(stepsDone, "save")
  /\ UNCHANGED <<scorer, res, split, connection, trainerModel, trainerTrained>>

\* finally { await mongoose.disconnect() }: the default connection is closed
TrainDisconnect ==
  /\ trainPc = "finally"
  /\ connection' = "disconnected"
  /\ trainPc' = "closing"
  /\ trainResult' = (IF trainResult = "success" THEN "success" ELSE "failure")
  /\ UNCHANGED <<scorer, res, split, trainerModel, trainerTrained, stepsDone>>

\* runTraining returns { success, ... } to the then of the /train handler
TrainReturns ==
  /\ trainPc = "closing"
  /\ trainPc' = "idle"
  /\ UNCHANGED <<scorer, res, split, connection, trainerModel, trainerTrained, trainResult,
                 stepsDone>>

\* the caller takes the result
Return ==
  /\ res # NoCall
  /\ res' = NoCall
  /\ UNCHANGED scorer
  /\ UNCHANGED trainer

Next ==
  \/ Initialize
  \/ ImportResolves
  \/ ImportFails
  \/ LoadLayersResolves
  \/ LoadLayersRejects
  \/ CreateModel
  \/ LoadModelReturns
  \/ InitializeReturns
  \/ Predict
  \/ ScoreScheduleWithML
  \/ GetOptimizationSuggestions
  \/ GetMLRecommendations
  \/ Return

Spec == Init /\ [][Next]_vars

\* the pure functions alone: the heuristic scorer on every item of
\* ScoreItems, the categorical normalisers on every call of NormalizerCalls
NextScore ==
  \/ CalculateHeuristicScore
  \/ ExtractFeatures
  \/ NormalizeCategorical
  \/ Return

SpecScore == Init /\ [][NextScore]_vars

\* the scorer alone: its load, and calls of calculateHeuristicScore and predict
NextAll ==
  \/ Initialize
  \/ ImportResolves
  \/ ImportFails
  \/ LoadLayersResolves
  \/ LoadLayersRejects
  \/ CreateModel
  \/ LoadModelReturns
  \/ InitializeReturns
  \/ CalculateHeuristicScore
  \/ Predict
  \/ Return

SpecAll == Init /\ [][NextAll]_vars

\* the routes of an optimizer being loaded, with training runs in the background
NextTrain ==
  \/ Initialize
  \/ ImportResolves
  \/ ImportFails
  \/ LoadLayersResolves
  \/ LoadLayersRejects
  \/ CreateModel
  \/ LoadModelReturns
  \/ InitializeReturns
  \/ ServerConnected
  \/ RecommendationsRoute
  \/ ScoreScheduleRoute
  \/ PostTrain
  \/ TrainConnect
  \/ TrainCollect
  \/ TrainFit
  \/ TrainEvaluate
  \/ TrainSave
  \/ TrainDisconnect
  \/ TrainReturns
  \/ Return

SpecTrain == Init /\ [][NextTrain]_vars

\* the load of the optimizer and training runs, no request; every step that
\* can be taken is taken in the end
NextRun ==
  \/ Initialize
  \/ ImportResolves
  \/ ImportFails
  \/ LoadLayersResolves
  \/ LoadLayersRejects
  \/ CreateModel
  \/ LoadModelReturns
  \/ InitializeReturns
  \/ ServerConnected
  \/ PostTrain
  \/ TrainConnect
  \/ TrainCollect
  \/ TrainFit
  \/ TrainEvaluate
  \/ TrainSave
  \/ TrainDisconnect
  \/ TrainReturns

SpecRun == Init /\ [][NextRun]_vars /\ WF_vars(NextRun)

\* two calls of initialize(), one after the other or overlapping, and calls
\* of predict
NextInit ==
  \/ Initialize
  \/ ImportResolves
  \/ ImportFails
  \/ LoadLayersResolves
  \/ LoadLayersRejects
  \/ CreateModel
  \/ LoadModelReturns
  \/ InitializeReturns
  \/ InitializeAgain
  \/ ImportAgain
  \/ LoadLayersAgain
  \/ CreateModelAgain
  \/ LoadModelReturnsAgain
  \/ InitializeReturnsAgain
  \/ Predict
  \/ Return

SpecInit == Init /\ [][NextInit]_vars

\* the preprocessor alone
NextData ==
  \/ SplitData
  \/ Return

SpecData == Init /\ [][NextData]_vars

\* the labels of the training samples alone
NextLabels ==
  \/ CalculateQualityScore
  \/ PrepareMLData
  \/ GenerateSyntheticSample
  \/ Return

SpecLabels == Init /\ [][NextLabels]_vars

(***************************************************************************)
(* Claims                                                                  *)
(***************************************************************************)
InUnitInterval(x) == 0 <= x /\ x <= 1000

Mean(scores) == Ratio(SumSeq(scores), Len(scores))

\* C1: every score handed back is in [0,1]: the value of
\* calculateHeuristicScore, and every element of a list returned by predict,
\* whichever backend is active
C1_ScoresInUnitInterval ==
  /\ res.op = "calculateHeuristicScore" => InUnitInterval(res.score)
  /\ (res.op = "predict" /\ res.result.ok) =>
       \A i \in 1..Len(res.result.scores) : InUnitInterval(res.result.scores[i])

\* the rules add up to less than 0 and the score returned is 0
C1_Witness ==
  /\ res.op = "calculateHeuristicScore"
  /\ RawHeuristic(res.item) < 0
  /\ res.score = 0

LoadFailures == {"backend unavailable", "weights missing", "incompatible format"}

\* C2: once loadModel has returned after a load failure, the backend flag is
\* false, the model is the heuristic one and predict returns the heuristic
\* score of each item
C2_LoadFailureActivatesHeuristic ==
  (initPc \in {"loaded", "done"} /\ loadOutcome \in LoadFailures) =>
    /\ isTensorFlow = "false"
    /\ model = HeuristicModel
    /\ (res.op = "predict" /\ res.result.ok) =>
         res.result.scores = heuristicPredict(res.items)

\* initialize() has been called and has not returned
InFlight == initPc \notin {"new", "done"}

AllGood(schedule) == \A i \in 1..Len(schedule) : schedule[i] \in GoodEntries

AnsweredByHeuristic(r) ==
  /\ (r.op = "scoreScheduleWithML" /\ r.schedule # <<>> /\ AllGood(r.schedule)) =>
       r.result.overallScore =
         Mean(heuristicPredict(resolveAll(r.schedule, DbCourses, DbTeachers, DbRooms)))
  /\ (r.op = "getOptimizationSuggestions" /\ AllGood(r.schedule)) =>
       r.result.status = "ok"
  /\ r.op = "getMLRecommendations" => ~r.result.isNull

\* C3: a scoring, diagnosis or recommendation request made while the load is
\* in flight is answered from the heuristic scores of its items
C3_HeuristicAnswersWhileLoading ==
  [][(InFlight /\ res = NoCall /\ res' # NoCall) => AnsweredByHeuristic(res')]_vars

\* the number of entries of list that satisfy Test
CountIf(list, Test(_)) == Cardinality({i \in 1..Len(list) : Test(list[i])})

\* the suggestions of r for the timetable entry e are those of its score band
BandOf(r, e) ==
  LET score == predict(<<resolved(e, DbCourses, DbTeachers, DbRooms)>>).scores[1]
      IsE(x) == x = e
      Reschedule(g) == g.item = e /\ g.type = "reschedule" /\ g.priority = "high"
      Improve(g) == g.item = e /\ g.type = "improve" /\ g.priority = "medium"
      OfEntry(g) == g.item = e
      n == CountIf(r.schedule, IsE)
  IN /\ CountIf(r.result.suggestions, Reschedule) = (IF score < 400 THEN n ELSE 0)
     /\ CountIf(r.result.suggestions, Improve) =
          (IF score >= 400 /\ score < 600 THEN n ELSE 0)
     /\ CountIf(r.result.suggestions, OfEntry) = (IF score < 600 THEN n ELSE 0)

\* C4: on a loaded optimizer every timetable entry whose references resolve
\* gets one reschedule/high suggestion iff its score is below 0.4, one
\* improve/medium suggestion iff its score is in [0.4, 0.6), and none otherwise
C4_SuggestionBands ==
  [][(isModelLoaded /\ res = NoCall /\ res'.op = "getOptimizationSuggestions") =>
       \A e \in GoodEntries :
         (\E i \in 1..Len(res'.schedule) : res'.schedule[i] = e) => BandOf(res', e)]_vars

\* the number of days drawn for the courses before the i-th
RECURSIVE drawnBefore(_, _, _, _)
drawnBefore(courses, teachers, rooms, i) ==
  IF i <= 1 THEN 0
  ELSE drawnBefore(courses, teachers, rooms, i - 1)
       + Len(combinations(courses[i - 1], teachers, rooms))

ScoredFor(r, i) ==
  scoredCandidates(r.courses[i], r.teachers, r.rooms, r.seed,
                   drawnBefore(r.courses, r.teachers, r.rooms, i))

\* C5: the list returned for a course has at most 5 entries in non-increasing
\* order of score, and every scored candidate whose score is above that of a
\* returned entry is returned
C5_TopFiveDescending ==
  (res.op = "getMLRecommendations" /\ ~res.result.isNull) =>
    \A i \in 1..Len(res.courses) :
      LET ret == res.result.mlGuidance[res.courses[i]._id]
          all == ScoredFor(res, i)
      IN /\ Len(ret) <= 5
         /\ \A k \in 1..(Len(ret) - 1) : ret[k].score >= ret[k + 1].score
         /\ \A k \in 1..Len(ret), j \in 1..Len(all) :
              all[j].score > ret[k].score =>
                LET Same(x) == x.score = all[j].score
                IN CountIf(ret, Same) = CountIf(all, Same)

\* more than five candidates were scored, the five returned differ in score
\* and a candidate with a lower score was left out
C5_Witness ==
  /\ res.op = "getMLRecommendations"
  /\ ~res.result.isNull
  /\ \E i \in 1..Len(res.courses) :
       LET ret == res.result.mlGuidance[res.courses[i]._id]
           all == ScoredFor(res, i)
       IN /\ Len(all) > 5
          /\ Len(ret) = 5
          /\ ret[1].score > ret[5].score
          /\ \E j \in 1..Len(all) : all[j].score < ret[5].score
          /\ all[1].score < ret[1].score

\* an entry whose three references are present and resolve
WellFormed(e) ==
  /\ ~lookupThrows(e, DbCourses, DbTeachers, DbRooms)
  /\ resolves(e, DbCourses, DbTeachers, DbRooms)

\* C6: entries with a missing or unresolvable reference are left out and the
\* other entries are scored and diagnosed as if the schedule held only them
C6_MalformedEntriesSkipped ==
  [][(res = NoCall /\ res' # NoCall) =>
       /\ res'.op = "scoreScheduleWithML" =>
            res'.result = scoreScheduleWithML(SelectSeq(res'.schedule, WellFormed),
                                              DbCourses, DbTeachers, DbRooms)
       /\ res'.op = "getOptimizationSuggestions" =>
            res'.result.suggestions =
              getOptimizationSuggestions(SelectSeq(res'.schedule, WellFormed),
                                         DbCourses, DbTeachers, DbRooms).suggestions]_vars

\* the item of the example: capacity 30 in a room for 10, Friday, the latest
\* slot, no expertise keyword of the teacher in the course name
C7_Case(it) ==
  /\ it.course.capacity = 30
  /\ it.room.capacity = 10
  /\ it.day = "Friday"
  /\ it.timeSlot = "16:00"
  /\ ~(Truthy(it.teacher.expertise) /\ expertiseMatch(it.course, it.teacher))

\* C7 as stated: every such item scores at most 0.3
C7_Original ==
  (res.op = "calculateHeuristicScore" /\ C7_Case(res.item)) => res.score <= 300

\* C7 amended: every such item whose teacher has expertise keywords, whose room
\* type does not match the lecture type and whose teacher has no positive
\* numeric availability scores at most 0.3, in the band below 0.4
C7_Amended ==
  ( /\ res.op = "calculateHeuristicScore"
    /\ C7_Case(res.item)
    /\ Truthy(res.item.teacher.expertise)
    /\ Len(res.item.teacher.expertise.arr) > 0
    /\ roomTypeMatch(res.item.room.type) # res.item.course.lectureType
    /\ ~(res.item.teacher.availability.js = "number"
         /\ res.item.teacher.availability.num > 0) )
  => res.score <= 300 /\ res.score < 400

\* the case with the largest experience bonus: the score is 0.25
C7_Witness ==
  /\ res.op = "calculateHeuristicScore"
  /\ C7_Case(res.item)
  /\ Truthy(res.item.teacher.expertise)
  /\ Len(res.item.teacher.expertise.arr) > 0
  /\ roomTypeMatch(res.item.room.type) # res.item.course.lectureType
  /\ res.item.teacher.availability = WeekGrid
  /\ res.item.teacher.teachableYears = Arr(<<1, 2, 3, 4>>)
  /\ res.score = 250

\* the item of the example: capacity 30 in a room for 30 of the matching type,
\* a morning slot, an expertise keyword in the course name, a teacher whose
\* availability is a grid or a positive number
C8_Case(it) ==
  /\ it.course.capacity = 30
  /\ it.room.capacity = 30
  /\ roomTypeMatch(it.room.type) = it.course.lectureType
  /\ it.timeSlot \in {"09:00", "10:00"}
  /\ Truthy(it.teacher.expertise)
  /\ expertiseMatch(it.course, it.teacher)
  /\ Truthy(it.teacher.availability)
  /\ it.teacher.availability.js = "number" => it.teacher.availability.num > 0

\* C8: every such item scores at least 0.8, on any day and with any number of
\* teachable years
C8_ExcellentExample ==
  (res.op = "calculateHeuristicScore" /\ C8_Case(res.item)) => res.score >= 800

\* the lowest such item: a Monday, no teachable years, an availability grid
C8_Witness ==
  /\ res.op = "calculateHeuristicScore"
  /\ C8_Case(res.item)
  /\ res.item.day = "Monday"
  /\ res.item.teacher.teachableYears = Undef
  /\ res.item.teacher.availability = WeekGrid
  /\ res.score = 950

\* the categorical input of the call is absent or not one of the known values
MissingOrUnknown(c) ==
  CASE c.fn = "normalizeTimePreference" ->
         ~Truthy(c.b) \/ Len(c.b.arr) = 0 \/ c.a \notin KnownSlots
    [] c.fn = "normalizeRoomTypeMatch" -> c.a \notin KnownRoomTypes
    [] c.fn = "normalizeTimeOfDay" -> c.a \notin KnownSlots
    [] c.fn = "normalizeDayOfWeek" -> c.a \notin KnownDays
    [] c.fn = "normalizeAvailability" -> ~Truthy(c.b)
    [] c.fn = "encodeTimeSlot" -> c.a \notin KnownSlots
    [] c.fn = "encodeDayOfWeek" -> c.a \notin KnownDays
    [] c.fn = "encodeRoomType" -> c.a \notin KnownRoomTypes
    [] c.fn = "encodeBranch" -> c.a \notin KnownBranches
    [] c.fn = "encodeProgram" -> c.a \notin KnownPrograms

\* C9: a missing or unknown categorical input normalizes to 0.5
C9_UnknownIsMidpoint ==
  (res.op = "normalize" /\ MissingOrUnknown(res.call)) => res.value = 500

\* C10: predict on a ready model returns one score per item, in input order,
\* the score that predict returns for that item alone
C10_BatchInInputOrder ==
  [][(Ready /\ res = NoCall /\ res'.op = "predict") =>
       /\ res'.result.ok
       /\ Len(res'.result.scores) = Len(res'.items)
       /\ \A i \in 1..Len(res'.items) :
            <<res'.result.scores[i]>> = predict(<<res'.items[i]>>).scores]_vars

\* C12: a course with an empty teacher list, no eligible teacher or no eligible
\* room is mapped to the empty list; it makes no call raise that would not
\* raise without it, and the lists of the other courses are those of the call
\* without it
C12_NoCandidatesGivesEmptyList ==
  [][(res = NoCall /\ res'.op = "getMLRecommendations") =>
       LET r == res'
           Has(c) == Len(combinations(c, r.teachers, r.rooms)) > 0
           others == SelectSeq(r.courses, Has)
           alone == getMLRecommendations(others, r.teachers, r.rooms, r.seed)
       IN /\ r.result.isNull = alone.isNull
          /\ others = <<>> => ~r.result.isNull
          /\ ~r.result.isNull =>
               \A i \in 1..Len(r.courses) :
                 r.result.mlGuidance[r.courses[i]._id] =
                   (IF Has(r.courses[i]) THEN alone.mlGuidance[r.courses[i]._id]
                    ELSE <<>>)]_vars

\* two courses in one call, teachers and rooms supplied: one course has no
\* eligible teacher or room and gets the empty list, the other gets five
\* recommendations
C12_Witness ==
  /\ res.op = "getMLRecommendations"
  /\ ~res.result.isNull
  /\ Len(res.courses) = 2
  /\ res.teachers # <<>>
  /\ res.rooms # <<>>
  /\ res.result.mlGuidance[res.courses[1]._id] = <<>>
  /\ Len(res.result.mlGuidance[res.courses[2]._id]) = 5

\* C13: in every state of the optimizer a schedule with zero items gets
\* overallScore 0 with no insights from scoreScheduleWithML and an empty
\* suggestions list from getOptimizationSuggestions
C13_EmptySchedule ==
  /\ (res.op = "scoreScheduleWithML" /\ res.schedule = <<>>) =>
       /\ res.result.overallScore = Ratio(0, 1)
       /\ res.result.insights = <<>>
  /\ (res.op = "getOptimizationSuggestions" /\ res.schedule = <<>>) =>
       /\ res.result.suggestions = <<>>
       /\ res.result.status # "error"

\* the empty schedule scored while the load is in flight
C13_Witness ==
  /\ res.op = "scoreScheduleWithML"
  /\ res.schedule = <<>>
  /\ initPc = "loadLayers"
  /\ res.result.overallScore.num = 0

\* the number of positions of list that hold x
Occurrences(list, x) == Cardinality({i \in 1..Len(list) : list[i] = x})

\* C14: the sets returned by splitData for n samples have floor(0.7 n),
\* floor(0.15 n) and n minus those two entries, and every sample is in exactly
\* one of them, once
C14_SplitPartitions ==
  res.op = "splitData" =>
    LET n == Len(res.data)
        parts == res.result
        all == parts.training \o parts.validation \o parts.test
    IN /\ Len(parts.training) = (7 * n) \div 10
       /\ Len(parts.validation) = (15 * n) \div 100
       /\ Len(parts.test) = n - (7 * n) \div 10 - (15 * n) \div 100
       /\ \A i \in 1..n : Occurrences(all, res.data[i]) = 1

\* the per-item scores of a list of resolved items: those of the ready model,
\* the heuristic ones while no model is ready
ItemScores(items) ==
  IF Ready THEN predict(items).scores ELSE heuristicPredict(items)

\* C15: in every state of the optimizer the overallScore of
\* scoreScheduleWithML is the mean of the scores of the entries whose
\* references resolve, and 0 when there is none
C15_OverallScoreIsMean ==
  [][(res = NoCall /\ res'.op = "scoreScheduleWithML") =>
       LET items == resolveAll(SelectSeq(res'.schedule, WellFormed),
                               DbCourses, DbTeachers, DbRooms)
       IN res'.result.overallScore =
            (IF items = <<>> THEN Ratio(0, 1) ELSE Mean(ItemScores(items)))]_vars

\* the sum and the number of the scores of the items that satisfy Of
SumWhere(items, scores, Of(_)) ==
  SumSeq([i \in 1..Len(items) |-> IF Of(items[i]) THEN scores[i] ELSE 0])

MeanBelowHalf(items, scores, Of(_)) ==
  SumWhere(items, scores, Of) < 500 * CountIf(items, Of)

\* C16: the insights of a scored schedule hold an insight about every teacher
\* and about every room whose items average below 0.5, and none about a
\* teacher or a room averaging 0.5 or more
C16_TeacherAndRoomInsights ==
  [][(Ready /\ res = NoCall /\ res'.op = "scoreScheduleWithML"
      /\ res'.schedule # <<>> /\ AllGood(res'.schedule)) =>
       LET items == resolveAll(res'.schedule, DbCourses, DbTeachers, DbRooms)
           scores == predict(items).scores
           insights == res'.result.insights
           About(id) == \E k \in 1..Len(insights) : insights[k].about = id
       IN \A i \in 1..Len(items) :
            LET OfTeacher(x) == x.teacher._id = items[i].teacher._id
                OfRoom(x) == x.room._id = items[i].room._id
            IN /\ About(items[i].teacher._id) <=> MeanBelowHalf(items, scores, OfTeacher)
               /\ About(items[i].room._id) <=> MeanBelowHalf(items, scores, OfRoom)]_vars

\* the rank of a teacher identifier in ascending order of identifiers
\* (DbTeachers lists the teachers in that order)
IdRank(id) == CHOOSE i \in 1..Len(DbTeachers) : DbTeachers[i]._id = id

\* C17: among the recommendations returned for a course, entries of equal
\* score are in ascending order of teacher identifier
C17_TiesByTeacherId ==
  (res.op = "getMLRecommendations" /\ ~res.result.isNull) =>
    \A i \in 1..Len(res.courses) :
      LET ret == res.result.mlGuidance[res.courses[i]._id]
      IN \A k \in 1..(Len(ret) - 1) :
           ret[k].score = ret[k + 1].score =>
             IdRank(ret[k].teacher) <= IdRank(ret[k + 1].teacher)

\* eligibility as the recommendation contract states it: the room type is
\* matched with the table of the scorer
TeacherEligible(course, teacher) ==
  /\ Truthy(teacher.teachableYears)
  /\ arrIncludes(teacher.teachableYears.arr, course.year)
  /\ Truthy(teacher.expertise)
  /\ expertiseMatch(course, teacher)

RoomEligible(course, room) ==
  /\ room.capacity >= course.capacity
  /\ roomTypeMatch(room.type) = course.lectureType

Elements(list) == {list[i] : i \in 1..Len(list)}

\* C18: for each course the candidates scored are exactly the eligible
\* teachers x the eligible rooms (room type matched with the scorer's table)
\* x the 8 time slots, and every returned recommendation is one of them
C18_CandidatesAreEligibleProduct ==
  res.op = "getMLRecommendations" =>
    \A i \in 1..Len(res.courses) :
      LET course == res.courses[i]
          C == combinations(course, res.teachers, res.rooms)
          scored == {<<C[k].teacher._id, C[k].room._id, C[k].timeSlot>> :
                       k \in 1..Len(C)}
          eligible ==
            {<<t._id, r._id, s>> :
               t \in {x \in Elements(res.teachers) : TeacherEligible(course, x)},
               r \in {x \in Elements(res.rooms) : RoomEligible(course, x)},
               s \in Elements(getAvailableTimeSlots)}
      IN /\ scored = eligible
         /\ ~res.result.isNull =>
              \A k \in 1..Len(res.result.mlGuidance[course._id]) :
                LET g == res.result.mlGuidance[course._id][k]
                IN <<g.teacher, g.room, g.timeSlot>> \in eligible

LoadOutcomes ==
  {"weights loaded", "weights missing", "incompatible format",
   "backend unavailable"}

\* C19: initialize raises nothing: in every load outcome it completes with
\* the readiness flag isModelLoaded set and a model to score with, and the
\* flag never goes back to false
C19_InitializeAlwaysReady ==
  [][/\ initPc' = "done" =>
          /\ isModelLoaded'
          /\ loadOutcome' \in LoadOutcomes
          /\ isTrained' /\ model' # NoModel
     /\ isModelLoaded => isModelLoaded']_vars

\* initialize has completed after a failed load and a request was answered
C19_Witness ==
  /\ initPc = "done" /\ isModelLoaded
  /\ loadOutcome = "incompatible format"
  /\ res.op = "getOptimizationSuggestions"

\* C20: a training run in the background leaves the optimizer's model,
\* backend flag and isModelLoaded alone, and a request on the initialized
\* optimizer is answered with what it would answer with no training run (the
\* connection of the server open)
C20_TrainingDoesNotAffectRequests ==
  [][/\ trainPc' # trainPc => UNCHANGED <<model, isTensorFlow, isModelLoaded>>
     /\ (initPc = "done" /\ res = NoCall /\ res'.op = "GET /recommendations") =>
          res'.response = recommendationsRoute(res'.courseId, res'.seed, TRUE)
     /\ (initPc = "done" /\ res = NoCall /\ res'.op = "POST /score-schedule") =>
          res'.response = scoreScheduleRoute(res'.schedule, TRUE)]_vars

\* the calls of the scorer and of the optimizer
ScoringCalls ==
  {"predict", "scoreScheduleWithML", "getOptimizationSuggestions",
   "getMLRecommendations"}

AvailabilityScore(a) ==
  IF ~Truthy(a) THEN 0
  ELSE IF a.js = "number" THEN a.num * 10
  ELSE normalizeAvailability(a)

\* the score as the rule engine is described, in thousandths
StatedHeuristic(it) ==
  LET keywords == IF Truthy(it.teacher.expertise)
                  THEN it.teacher.expertise.arr ELSE <<>>
      years == IF Truthy(it.teacher.teachableYears)
               THEN Len(it.teacher.teachableYears.arr) ELSE 0
      raw ==
        500
        + (IF keywords = <<>> THEN 0
           ELSE IF \E k \in 1..Len(keywords) :
                     includes(toLowerCase(it.course.name), toLowerCase(keywords[k]))
           THEN 200 ELSE -100)
        + (IF years * 50 > 150 THEN 150 ELSE years * 50)
        + (IF it.room.capacity >= it.course.capacity THEN 100 ELSE -200)
        + (IF     (it.room.type \in {"classroom", "lecture-hall"}
                     /\ it.course.lectureType = "theory")
               \/ (it.room.type = "lab" /\ it.course.lectureType = "lab")
           THEN 100 ELSE 0)
        + (IF it.timeSlot \in {"09:00", "10:00"} THEN 100
           ELSE IF it.timeSlot = "16:00" THEN -50 ELSE 0)
        + (IF it.day \in {"Monday", "Friday"} THEN -50 ELSE 0)
        + (AvailabilityScore(it.teacher.availability) \div 10)
  IN IF raw < 0 THEN 0 ELSE IF raw > 1000 THEN 1000 ELSE raw

\* C22: the heuristic score of every item is the clamp to [0, 1] of 0.5 plus
\* the expertise, experience, capacity, room type, time slot, day and
\* availability terms, the availability of a teacher given as a boolean grid
\* included
C22_HeuristicFormula ==
  res.op = "calculateHeuristicScore" => res.score = StatedHeuristic(res.item)

\* the causes of a suggestion for the entry e scored s, in the stated order
StatedCauses(e, s) ==
  LET it == resolved(e, DbCourses, DbTeachers, DbRooms)
      quality == IF s < 300 THEN <<"Very poor schedule quality">>
                 ELSE IF s < 500 THEN <<"Below average schedule quality">>
                 ELSE <<>>
      capacity == IF it.room.capacity < it.course.capacity
                  THEN <<"Room capacity mismatch">> ELSE <<>>
      level == IF \A k \in 1..Len(it.teacher.teachableYears.arr) :
                    it.teacher.teachableYears.arr[k] # it.course.year
               THEN <<"Teacher not suitable for course level">> ELSE <<>>
  IN quality \o capacity \o level

C24_FeaturesInUnitInterval ==
  res.op = "extractFeatures" =>
    \A i \in 1..Len(res.features) : 0 <= res.features[i] /\ res.features[i] <= 1000

\* the label of an entry as stated: 0.5, +0.2 / -0.1 for the expertise of the
\* instructor, +0.1 / -0.2 for the capacity of the room, +0.1 for a preferred
\* slot, -0.1 for each conflict, clamped to [0, 1]
StatedLabel(item, conflicts) ==
  LET teacher == findById(DbTeachers, item.course.instructor)
      raw == 500
             + (IF expertiseMatch(item.course, teacher) THEN 200 ELSE -100)
             + (IF item.room.capacity >= item.course.capacity THEN 100 ELSE -200)
             + (IF item.startTime = "09:00" THEN 100 ELSE 0)
             - 100 * conflicts
  IN IF raw < 0 THEN 0 ELSE IF raw > 1000 THEN 1000 ELSE raw

\* C25: every training label is a number in [0, 1]; the label of a stored
\* entry is lowered by 0.1 for each conflict counted for it
C25_LabelsInUnitInterval ==
  /\ res.op \in {"calculateQualityScore", "generateSyntheticData"} =>
       /\ res.label.js = "number"
       /\ 0 <= res.label.num /\ res.label.num <= 1000
  /\ res.op = "calculateQualityScore" =>
       res.label = Num(StatedLabel(res.item, res.conflicts))

\* C26: on the numeric backend a training run that has collected a non-empty
\* data set goes through train, evaluate and save and returns success: true
C26_NumericTrainingSucceeds ==
  (trainPc = "train" /\ tf = "module" /\ split.trainingData # <<>>)
    ~> (trainPc = "closing" /\ trainResult = "success"
          /\ stepsDone = <<"connect", "collect", "train", "evaluate", "save">>)

\* the flags a single completed call of initialize() leaves, by load outcome
SingleCallFlags(outcome) ==
  [isModelLoaded |-> TRUE, isTrained |-> TRUE,
   isTensorFlow |-> IF outcome = "backend unavailable" THEN "false" ELSE "true"]

\* C27: a second call of initialize(), after the first or overlapping it, ends
\* with isModelLoaded, isTrained and the active backend as a single call
\* leaves them, and isTrained is never true without a model object
C27_InitializeIdempotent ==
  /\ (initPc = "done" /\ reinitPc \in {"new", "done"}) =>
       [isModelLoaded |-> isModelLoaded, isTrained |-> isTrained,
        isTensorFlow |-> isTensorFlow] = SingleCallFlags(loadOutcome)
  /\ isTrained => model # NoModel

\* both calls have completed after a load that found no weights, and a
\* prediction was made afterwards
C27_Witness ==
  /\ initPc = "done" /\ reinitPc = "done"
  /\ loadOutcome = "weights missing"
  /\ res.op = "predict"

TrainingSteps == <<"connect", "collect", "train", "evaluate", "save">>

\* C28: the steps of a training run succeed in the order connect, collect,
\* train, evaluate, save, none after a failed one; the run ends with success
\* exactly when all five have succeeded, and with a failure otherwise
C28_TrainingStepsInOrder ==
  /\ Len(stepsDone) <= Len(TrainingSteps)
  /\ stepsDone = SubSeq(TrainingSteps, 1, Len(stepsDone))
  /\ trainPc = "finally" => (trainResult = "success" <=> stepsDone = TrainingSteps)
  /\ trainPc \in {"closing", "idle"} /\ trainResult # "none" =>
       /\ trainResult = "success" <=> stepsDone = TrainingSteps
       /\ trainResult = "failure" <=> stepsDone # TrainingSteps

\* a run that failed at train on the numeric backend: evaluate and save were
\* skipped and the result is a failure
C28_Witness ==
  /\ trainPc = "closing"
  /\ trainerModel = "layers"
  /\ stepsDone = <<"connect", "collect">>
  /\ trainResult = "failure"

\* C29: when a training run started through the train endpoint has finished,
\* with a success or a failure, the connection of the server is still open
C29_ConnectionSurvivesTraining ==
  (trainPc = "idle" /\ trainResult # "none") => connection = "connected"

\* C30: prepareMLData gives, per sample and in input order, one row of 15
\* components and one label of a single element, and position k of a row is
\* the feature featureNames names at k, divided as extractFeatures divides it
C30_SameFeatureLayout ==
  res.op = "prepareMLData" =>
    LET features == res.result.features
        labels == res.result.labels
    IN /\ Len(features) = Len(res.data) /\ Len(labels) = Len(res.data)
       /\ \A i \in 1..Len(res.data) :
            /\ Len(features[i].arr) = Len(featureNames)
            /\ Len(labels[i]) = 1
            /\ labels[i][1].of = res.data[i]
            /\ \A k \in 1..Len(featureNames) :
                 /\ features[i].arr[k].of = res.data[i]
                 /\ features[i].arr[k].feature = featureNames[k]
                 /\ features[i].arr[k].scale = featureScales[k]

====
